---- MODULE Spec2Model ----
(***************************************************************************)
(* Model of the dataset store (DatasetsHandler, datasets_handler.py) and   *)
(* of the 2-d feature map engine (simple_feature_map.py).                  *)
(*                                                                         *)
(* Every call of the store's API is one action: the call runs to           *)
(* completion (the code is single-threaded) and leaves its outcome in      *)
(* lastCall.  A generator returned by iterate_examples is advanced one     *)
(* next() at a time.                                                       *)
(***************************************************************************)
EXTENDS Integers, Sequences, FiniteSets, TLC

VARIABLES
    fs,        \* what the path self.h5_file holds on disk
    handler,   \* the DatasetsHandler object the caller holds (if any)
    lastCall,  \* outcome of the last call of the store's API
    runs,      \* the generators returned by iterate_examples
    sigmas,    \* simple_feature_map.sigmas
    cache,     \* simple_feature_map's memoization attributes
    fmCall,    \* outcome of the last call of the feature map
    fmCreate   \* arguments of the last call with memoize='create'

storeVars == <<fs, handler, lastCall, runs>>
fmVars == <<sigmas, cache, fmCall, fmCreate>>
vars == <<fs, handler, lastCall, runs, sigmas, cache, fmCall, fmCreate>>

-----------------------------------------------------------------------------
(* Bounds *)

MaxExamples == 2    \* longest list of images / segmentations supplied
MaxRuns == 2        \* generators alive at once

-----------------------------------------------------------------------------
(* Small helpers *)

NoError == "none"

Range(s) == {s[k] : k \in 1..Len(s)}

SeqsUpTo(S, n) == UNION {[1..k -> S] : k \in 0..n}

Min(a, b) == IF a < b THEN a ELSE b

-----------------------------------------------------------------------------
(* Module constants of datasets_handler.py *)

TRAINING_DATASET_KEY == "training"
VALIDATION_DATASET_KEY == "validation"
TESTING_DATASET_KEY == "testing"
DATASET_KEYS == <<TRAINING_DATASET_KEY, VALIDATION_DATASET_KEY, TESTING_DATASET_KEY>>

IMAGE_KEY == "image"
SEGMENTATION_KEY == "segmentation"
DISTANCE_TRANSFORM_KEY == "distance-transform"
DX_ATTR == "dx"

\* EXAMPLE_KEY.format(i): the text "example-" followed by the decimal index
EXAMPLE_KEY(i) == <<"example-", i>>

-----------------------------------------------------------------------------
(* Arrays handed to the store: only what the code looks at (dtype, shape)   *)

F22 == [dtype |-> "float64", shape |-> <<2, 2>>]
I22 == [dtype |-> "int64", shape |-> <<2, 2>>]
F2 == [dtype |-> "float64", shape |-> <<2>>]

B22 == [dtype |-> "bool", shape |-> <<2, 2>>]
U22 == [dtype |-> "uint8", shape |-> <<2, 2>>]
B23 == [dtype |-> "bool", shape |-> <<2, 3>>]
B2 == [dtype |-> "bool", shape |-> <<2>>]

ImgKinds == {F22, I22, F2}
SegKinds == {B22, U22, B23, B2}

ndim(a) == Len(a.shape)

\* an optional argument: Python's None or a value
NoneArg == [isNone |-> TRUE, v |-> <<>>]
Some(x) == [isNone |-> FALSE, v |-> x]

ImgLists == {NoneArg} \cup {Some(s) : s \in SeqsUpTo(ImgKinds, MaxExamples)}
SegLists == {NoneArg} \cup {Some(s) : s \in SeqsUpTo(SegKinds, MaxExamples)}
\* dx: None, or an array of which only the shape is looked at
DxArgs == {NoneArg} \cup {Some(<<n, d>>) : n \in 1..MaxExamples, d \in 1..2}

\* The steps of the write loop for one example, in the order of the code
WriteSteps == <<"group", "normalize", IMAGE_KEY, SEGMENTATION_KEY,
                "distance", DISTANCE_TRANSFORM_KEY, DX_ATTR>>

\* A step of the write loop that raises (I/O error, normalization error,
\* skfmm.distance rejecting the segmentation), or none
NoFault == [i |-> -1, step |-> "none"]
Faults(n) == {NoFault} \cup
             {[i |-> i, step |-> WriteSteps[k]] : i \in 0..(n-1), k \in 1..Len(WriteSteps)}

-----------------------------------------------------------------------------
(* The file at self.h5_file *)

NoFile == [exists |-> FALSE, groups |-> <<>>]

\* os.path.exists(self.h5_file)
PathExists(f) == f.exists

\* hf.keys()
Keys(f) == DOMAIN f.groups

\* what a group holds once all steps before step number k of the write loop ran
MembersBefore(k) == {WriteSteps[j] : j \in 1..(k-1)} \ {"group", "normalize", "distance"}

AllMembers == MembersBefore(Len(WriteSteps) + 1)

StepNo(step) == CHOOSE k \in 1..Len(WriteSteps) : WriteSteps[k] = step

Group(img, seg, normalize, dxGiven, members) ==
    [members |-> members, img |-> img, seg |-> seg,
     normalized |-> normalize, dxGiven |-> dxGiven]

-----------------------------------------------------------------------------
(* convert_to_hdf5 *)

Result(err, steps, f) == [err |-> err, steps |-> steps, fs |-> f]

Step(i, step) == [i |-> i, step |-> step]

\* The checks of the validation loop on example i, in the order of the code
ValidateExample(img, seg, nd) ==
    IF img.dtype # "float64" THEN "TypeError"         \* img.dtype != numpy.float
    ELSE IF seg.dtype # "bool" THEN "TypeError"       \* seg.dtype != numpy.bool
    ELSE IF ndim(img) # nd THEN "ValueError"
    ELSE IF ndim(seg) # nd THEN "ValueError"
    ELSE IF img.shape # seg.shape THEN "ValueError"
    ELSE NoError

\* for i in range(n_examples): the error of the first example that fails
ValidateAll(imgs, segs, nd) ==
    LET bad == {i \in 1..Len(imgs) : ValidateExample(imgs[i], segs[i], nd) # NoError}
    IN  IF bad = {} THEN NoError
        ELSE LET first == CHOOSE i \in bad : \A j \in bad : i <= j
             IN  ValidateExample(imgs[first], segs[first], nd)

\* the (example, step) pairs of the write loop that ran before the fault
\* (all of them when there is none)
StepsDone(n, normalize, fault) ==
    LET W == Len(WriteSteps)
        count == IF fault = NoFault THEN n * W
                 ELSE fault.i * W + StepNo(fault.step) - 1
        all == [m \in 1..count |-> Step((m - 1) \div W, WriteSteps[((m - 1) % W) + 1])]
    IN  SelectSeq(all, LAMBDA st : normalize \/ st.step # "normalize")

\* the groups the file holds after the write loop ran up to the fault
GroupsWritten(imgs, segs, normalize, dxGiven, fault) ==
    LET n == Len(imgs)
        last == IF fault = NoFault THEN n - 1
                ELSE IF fault.step = "group" THEN fault.i - 1 ELSE fault.i
    IN  [k \in {EXAMPLE_KEY(i) : i \in 0..last} |->
            Group(imgs[k[2] + 1], segs[k[2] + 1], normalize, dxGiven,
                  IF fault # NoFault /\ k[2] = fault.i
                  THEN MembersBefore(StepNo(fault.step))
                  ELSE AllMembers)]

\* the write loop, lines 184-217: hf = h5py.File(path, 'w') creates the file,
\* then one group per example; a step that raises leaves the loop with no
\* handler around it, so what was written stays in the file
WriteStore(imgs, segs, normalize, dxGiven, fault, stepsBefore) ==
    Result(IF fault = NoFault THEN NoError ELSE "StepError",
           stepsBefore \o <<Step(-1, "create_file")>>
               \o StepsDone(Len(imgs), normalize, fault)
               \o (IF fault = NoFault THEN <<Step(-1, "close")>> ELSE <<>>),
           [exists |-> TRUE,
            groups |-> GroupsWritten(imgs, segs, normalize, dxGiven, fault)])

\* the existence test left out: the file is opened for writing whatever the path holds
StoreAlreadyExists_Unchecked(f) == FALSE

\* os.path.exists(self.h5_file) at the top of convert_to_hdf5
StoreAlreadyExists(f) == PathExists(f)

ConvertToHdf5(f, imgs, segs, dx, normalize, fault) ==
    IF StoreAlreadyExists(f) THEN Result("FileExistsError", <<>>, f)
    \* n_examples = len(imgs); ndim = imgs[0].ndim
    ELSE IF Len(imgs) = 0 THEN Result("IndexError", <<Step(-1, "setup")>>, f)
    ELSE
    LET n == Len(imgs)
        nd == ndim(imgs[1])
        s1 == <<Step(-1, "setup"), Step(-1, "validate")>>
    IN  IF Len(imgs) # Len(segs) THEN Result("ValueError", s1, f)
        ELSE IF ValidateAll(imgs, segs, nd) # NoError
             THEN Result(ValidateAll(imgs, segs, nd), s1, f)
        ELSE IF ~dx.isNone /\ dx.v # <<n, nd>> THEN Result("ValueError", s1, f)
        ELSE WriteStore(imgs, segs, normalize, ~dx.isNone, fault, s1)

-----------------------------------------------------------------------------
(* What is wrong with the arguments of a conversion, in the words of the    *)
(* documentation of convert_to_hdf5                                         *)

Defects(imgs, segs, dx) ==
    LET m == Min(Len(imgs), Len(segs))
    IN  {d \in {"count", "img_dtype", "seg_dtype", "pair_shape", "dx_shape", "img_rank"} :
            \/ d = "count" /\ Len(imgs) # Len(segs)
            \/ d = "img_dtype" /\ \E i \in 1..Len(imgs) : imgs[i].dtype # "float64"
            \/ d = "seg_dtype" /\ \E i \in 1..Len(segs) : segs[i].dtype # "bool"
            \/ d = "pair_shape" /\ \E i \in 1..m : imgs[i].shape # segs[i].shape
            \/ d = "dx_shape" /\ ~dx.isNone /\ Len(imgs) > 0
                  /\ dx.v # <<Len(imgs), ndim(imgs[1])>>
            \/ d = "img_rank" /\ \E i \in 1..Len(imgs) : ndim(imgs[i]) # ndim(imgs[1])}

-----------------------------------------------------------------------------
(* The handler object and the record of the last call *)

\* self.datasets = None
NoDatasets == [isNone |-> TRUE, v |-> <<>>]

NoHandler == [alive |-> FALSE, n_examples |-> 0, datasets |-> NoDatasets]

Handler(n) == [alive |-> TRUE, n_examples |-> n, datasets |-> NoDatasets]

\* an access to the storage handle: what was done, and the state the handle
\* was in at that moment
Ev(ev, state) == [ev |-> ev, handle |-> state]

Call(op, err, steps, pre, info, log) ==
    [op |-> op, err |-> err, steps |-> steps, pre |-> pre, info |-> info, log |-> log]

NoCall == Call("none", NoError, <<>>, NoFile, [converted |-> FALSE], <<>>)

ConvInfo(imgs, segs, dx) ==
    [n |-> Len(imgs), nsegs |-> Len(segs), defects |-> Defects(imgs, segs, dx)]

\* with h5py.File(self.h5_file) as hf: self.n_examples = len(hf.keys())
CountExamples(f) == Cardinality(Keys(f))

CountLog == <<Ev("open", "open"), Ev("len(keys)", "open"), Ev("close", "closed")>>

-----------------------------------------------------------------------------
(* DatasetsHandler(h5_file, imgs, segs, dx, normalize_imgs_on_convert)      *)

\* the path holds a file: the arguments are not looked at
ConstructOpen ==
    /\ PathExists(fs)
    /\ handler' = Handler(CountExamples(fs))
    /\ lastCall' = Call("construct", NoError, <<>>, fs, [converted |-> FALSE], CountLog)
    /\ UNCHANGED <<fs, runs>>

\* the path holds nothing and no data is given
ConstructNoData ==
    /\ ~PathExists(fs)
    /\ \E imgs \in ImgLists, segs \in SegLists :
          /\ imgs.isNone \/ segs.isNone
          /\ lastCall' = Call("construct", "ValueError", <<>>, fs,
                              [converted |-> FALSE], <<>>)
    /\ UNCHANGED <<fs, handler, runs>>

\* the path holds nothing: convert, then count the examples
ConstructConvert ==
    /\ ~PathExists(fs)
    /\ \E imgs \in ImgLists, segs \in SegLists, dx \in DxArgs, normalize \in BOOLEAN :
          /\ ~imgs.isNone /\ ~segs.isNone
          /\ LET r0 == ConvertToHdf5(fs, imgs.v, segs.v, dx, normalize, NoFault)
                 info == [converted |-> TRUE] @@ ConvInfo(imgs.v, segs.v, dx)
             IN  IF r0.err # NoError
                 THEN /\ fs' = r0.fs
                      /\ handler' = handler
                      /\ lastCall' = Call("construct", r0.err, r0.steps, fs, info, <<>>)
                 ELSE \E fault \in Faults(Len(imgs.v)) :
                        /\ fault.step = "normalize" => normalize
                        /\ LET r == ConvertToHdf5(fs, imgs.v, segs.v, dx, normalize, fault)
                           IN  /\ fs' = r.fs
                               /\ handler' = IF r.err = NoError
                                             THEN Handler(CountExamples(r.fs))
                                             ELSE handler
                               /\ lastCall' = Call("construct", r.err, r.steps, fs, info,
                                                   IF r.err = NoError THEN CountLog ELSE <<>>)
    /\ UNCHANGED runs

Construct == ConstructOpen \/ ConstructNoData \/ ConstructConvert

\* handler.convert_to_hdf5(imgs, segs, dx, normalize_imgs) called by the user
Convert ==
    /\ handler.alive
    /\ \E imgs \in SeqsUpTo(ImgKinds, 1), segs \in SeqsUpTo(SegKinds, 1),
          dx \in {NoneArg, Some(<<1, 2>>)}, normalize \in BOOLEAN,
          fault \in Faults(1) :
          /\ fault.i < Len(imgs)
          /\ fault.step = "normalize" => normalize
          /\ LET r == ConvertToHdf5(fs, imgs, segs, dx, normalize, fault)
             IN  /\ fs' = r.fs
                 /\ lastCall' = Call("convert", r.err, r.steps, fs,
                                     [converted |-> TRUE] @@ ConvInfo(imgs, segs, dx), <<>>)
    /\ UNCHANGED <<handler, runs>>

-----------------------------------------------------------------------------
(* The store being created and re-opened *)

InitFM ==
    /\ sigmas = <<>>
    /\ cache = <<>>
    /\ fmCall = <<>>
    /\ fmCreate = <<>>

Init ==
    /\ fs = NoFile
    /\ handler = NoHandler
    /\ lastCall = NoCall
    /\ runs = <<>>
    /\ InitFM

Next ==
    \/ Construct /\ UNCHANGED fmVars
    \/ Convert /\ UNCHANGED fmVars

Spec == Init /\ [][Next]_vars

-----------------------------------------------------------------------------
(* Properties of conversion *)

\* convert_to_hdf5 ran in the last call (directly, or from the constructor)
Converted == lastCall.info.converted

\* a file made by a conversion of n examples that ran to its end
CompleteStore(f, n) ==
    /\ PathExists(f)
    /\ Keys(f) = {EXAMPLE_KEY(i) : i \in 0..(n - 1)}
    /\ \A k \in Keys(f) : f.groups[k].members = AllMembers

\* C2: convert_to_hdf5 called when the path already holds a store raises
\* FileExistsError without having run any step (no validation, no write), and
\* the file is what it was before the call.
C2_ExistingStoreRejected ==
    (Converted /\ PathExists(lastCall.pre)) =>
        /\ lastCall.err = "FileExistsError"
        /\ lastCall.steps = <<>>
        /\ fs = lastCall.pre

\* a convert call with arguments that validation would reject, made on a
\* path that holds a store with examples, was turned away
C2_Witness ==
    /\ lastCall.op = "convert"
    /\ PathExists(lastCall.pre)
    /\ Keys(lastCall.pre) # {}
    /\ lastCall.info.defects # {}
    /\ lastCall.err = "FileExistsError"

\* C3: after a convert_to_hdf5 call on a path that held no store, whether it
\* returned or raised, the path holds no file or a store with all n examples
\* supplied.
C3_AllOrNothing ==
    (Converted /\ ~PathExists(lastCall.pre)) =>
        \/ ~PathExists(fs)
        \/ CompleteStore(fs, lastCall.info.n)

ClaimedDefects == {"count", "img_dtype", "seg_dtype", "pair_shape", "dx_shape"}

\* C4: a conversion whose arguments have one of the documented defects raises
\* TypeError or ValueError (TypeError when the defect is a dtype, ValueError
\* when it is a count, rank, shape or spacing-shape mismatch) and leaves no
\* file at the path.
C4_ValidationRejects ==
    (Converted /\ ~PathExists(lastCall.pre)
        /\ lastCall.info.defects \cap ClaimedDefects # {}) =>
        /\ lastCall.err \in {"TypeError", "ValueError"}
        /\ ~PathExists(fs)
        /\ \A d \in ClaimedDefects :
              lastCall.info.defects = {d} =>
                  lastCall.err = (IF d \in {"img_dtype", "seg_dtype"}
                                  THEN "TypeError" ELSE "ValueError")

-----------------------------------------------------------------------------
(* assign_examples_to_datasets and the two methods it dispatches to         *)

\* values handed as training / validation / testing: a float (in tenths), a
\* list of ints, a list of something else
Float(t) == [t |-> "float", v |-> <<t>>, ints |-> FALSE]
List(l) == [t |-> "list", v |-> l, ints |-> TRUE]
StrList == [t |-> "list", v |-> <<0>>, ints |-> FALSE]

AssignVals == {Float(6), Float(2), List(<<0>>), List(<<1>>), List(<<2>>), List(<<>>), StrList}

\* random_state: None, a numpy.random.RandomState, something else
RandomStates == {"None", "RandomState", "other"}

\* isinstance(obj, classinfo) takes two arguments; the checks of
\* assign_examples_by_indices pass one
IsInstanceArgsPassed == 1
IsInstanceArgsTaken == 2

AssignResult(err, steps, datasets, log, pool, draw) ==
    [err |-> err, steps |-> steps, datasets |-> datasets, log |-> log,
     pool |-> pool, draw |-> draw]

\* self.datasets[key] = value
SetItem(datasets, key, value) ==
    IF datasets.isNone THEN [err |-> "TypeError", datasets |-> datasets]
    ELSE [err |-> NoError,
          datasets |-> Some([k \in (DOMAIN datasets.v) \cup {key} |->
                                IF k = key THEN value ELSE datasets.v[k]])]

\* all([isinstance(index) for index in lst]): the comprehension calls
\* isinstance for each element
IndexCheck(lst) ==
    IF Len(lst) > 0 /\ IsInstanceArgsPassed # IsInstanceArgsTaken THEN "TypeError"
    ELSE NoError

\* the three assignments that end assign_examples_by_indices and the loop that
\* ends assign_examples_randomly
SetAll(datasets, values) ==
    LET s1 == SetItem(datasets, DATASET_KEYS[1], values[1])
        s2 == SetItem(s1.datasets, DATASET_KEYS[2], values[2])
        s3 == SetItem(s2.datasets, DATASET_KEYS[3], values[3])
    IN  IF s1.err # NoError THEN s1
        ELSE IF s2.err # NoError THEN s2
        ELSE s3

AssignExamplesByIndices(h, tr, va, te) ==
    IF IndexCheck(tr) # NoError
    THEN AssignResult(IndexCheck(tr), <<>>, h.datasets, <<>>, {}, <<>>)
    ELSE IF IndexCheck(va) # NoError
    THEN AssignResult(IndexCheck(va), <<>>, h.datasets, <<>>, {}, <<>>)
    ELSE IF IndexCheck(te) # NoError
    THEN AssignResult(IndexCheck(te), <<>>, h.datasets, <<>>, {}, <<>>)
    ELSE LET r == SetAll(h.datasets, <<tr, va, te>>)
         IN  AssignResult(r.err, <<Step(-1, "record")>>, r.datasets, <<>>, {}, <<>>)

\* numpy.where(cond) gives one index array per dimension of cond; indicators
\* has shape (n_keys, 3)
IndicatorsNdim == 2
\* sub_keys_as_array is one-dimensional
SubKeysNdim == 1

\* sub_keys_as_array[numpy.where(indicators == idataset_key)]
FancyIndex(ndimArray, nIndexArrays) ==
    IF nIndexArrays > ndimArray THEN "IndexError" ELSE NoError

\* the keys the indicator rows put in dataset number c
Drawn(pool, draw, c) == {k \in pool : draw[k] = c}

\* the categories multinomial(n=1, pvals) can pick: numpy takes the last
\* probability as what the others leave
Categories(probs) ==
    {c \in 0..2 : IF c < 2 THEN probs[c + 1] > 0 ELSE probs[1] + probs[2] < 10}

\* assign_examples_randomly from line 335 on, with keys as read from the file
SplitKeys(h, keys, probs, subset_size, pool, draw, log) ==
    IF ~subset_size.isNone /\ subset_size.v > Cardinality(keys)
    THEN AssignResult("ValueError", <<>>, h.datasets, log, {}, <<>>)
    ELSE IF probs[1] + probs[2] > 10        \* multinomial: sum(pvals[:-1]) > 1.0
    THEN AssignResult("ValueError", <<Step(-1, "choice")>>, h.datasets, log, pool, <<>>)
    ELSE IF FancyIndex(SubKeysNdim, IndicatorsNdim) # NoError
    THEN AssignResult(FancyIndex(SubKeysNdim, IndicatorsNdim),
                      <<Step(-1, "choice"), Step(-1, "multinomial")>>,
                      h.datasets, log, pool, draw)
    ELSE LET r == SetAll(h.datasets, [c \in 1..3 |-> Drawn(pool, draw, c - 1)])
         IN  AssignResult(r.err,
                          <<Step(-1, "choice"), Step(-1, "multinomial"), Step(-1, "record")>>,
                          r.datasets, log, pool, draw)

\* with self.open_h5_file() as hf: keys = hf.keys()
\* the handle is closed when the with block ends; keys is a view of the file
KeysLog == <<Ev("open", "open"), Ev("keys()", "open"), Ev("close", "closed")>>

\* open_h5_file when h5py.File raises: the finally clause closes h5, a name
\* that was never bound
OpenFailedLog == <<Ev("open-failed", "unbound"), Ev("close", "unbound")>>

\* assign_examples_randomly(probabilities, subset_size, random_state).
\* openOk: h5py.File opens the file.  staleOk: len(keys), evaluated after the
\* file was closed, gives the number of keys (it raises otherwise).
AssignExamplesRandomly(h, f, probs, subset_size, openOk, staleOk, pool, draw) ==
    IF ~openOk
    THEN AssignResult("UnboundLocalError", <<>>, h.datasets, OpenFailedLog, {}, <<>>)
    ELSE LET log == KeysLog \o <<Ev("len(keys)", "closed")>>
         IN  IF ~staleOk
             THEN AssignResult("ValueError", <<>>, h.datasets, log, {}, <<>>)
             ELSE SplitKeys(h, Keys(f), probs, subset_size, pool, draw, log)

\* the parameters assign_examples_randomly requires and the keywords
\* assign_examples_to_datasets passes
AssignRandomlyParams == {"probabilities", "subset_size", "random_state"}
AssignRandomlyPassed == {"probabilities", "random_state"}

\* isinstance(index_list, list) and [isinstance(index, int) for index in
\* index_list]: the value is the list of booleans, true when it is not empty
IsListOfInts(x) == x.t = "list" /\ Len(x.v) > 0

AssignExamplesToDatasets(h, f, training, validation, testing, random_state) ==
    LET warn == IF random_state = "None" THEN <<Step(-1, "warning")>> ELSE <<>>
        all3 == {training, validation, testing}
    IN  IF random_state # "None" /\ random_state # "RandomState"
        THEN AssignResult("TypeError", <<>>, h.datasets, <<>>, {}, <<>>)
        ELSE IF \A x \in all3 : x.t = "float"
        THEN IF AssignRandomlyParams \subseteq AssignRandomlyPassed
             THEN AssignExamplesRandomly(h, f, <<training.v[1], validation.v[1], testing.v[1]>>,
                                         NoneArg, TRUE, FALSE, {}, <<>>)
             ELSE AssignResult("TypeError", warn, h.datasets, <<>>, {}, <<>>)
        ELSE IF \A x \in all3 : IsListOfInts(x)
        THEN LET r == AssignExamplesByIndices(h, training.v, validation.v, testing.v)
             IN  AssignResult(r.err, warn \o r.steps, r.datasets, r.log, r.pool, r.draw)
        ELSE AssignResult("ValueError", warn, h.datasets, <<>>, {}, <<>>)

AssignInfo(training, validation, testing, random_state, r) ==
    [converted |-> FALSE, training |-> training, validation |-> validation,
     testing |-> testing, random_state |-> random_state, pool |-> r.pool, draw |-> r.draw]

AssignToDatasets ==
    /\ handler.alive
    /\ \E training \in AssignVals, validation \in AssignVals, testing \in AssignVals,
          random_state \in RandomStates :
          LET r == AssignExamplesToDatasets(handler, fs, training, validation, testing,
                                            random_state)
          IN  /\ handler' = [handler EXCEPT !.datasets = r.datasets]
              /\ lastCall' = Call("assign_examples_to_datasets", r.err, r.steps, fs,
                                  AssignInfo(training, validation, testing, random_state, r),
                                  r.log)
    /\ UNCHANGED <<fs, runs>>

IndexLists == {<<0>>, <<1>>, <<>>}

AssignByIndices ==
    /\ handler.alive
    /\ \E tr \in IndexLists, va \in IndexLists, te \in IndexLists :
          LET r == AssignExamplesByIndices(handler, tr, va, te)
          IN  /\ handler' = [handler EXCEPT !.datasets = r.datasets]
              /\ lastCall' = Call("assign_examples_by_indices", r.err, r.steps, fs,
                                  AssignInfo(List(tr), List(va), List(te), "None", r), r.log)
    /\ UNCHANGED <<fs, runs>>

Probabilities == {<<6, 2, 2>>, <<2, 2, 2>>, <<6, 6, 2>>}

SubsetSizes == {NoneArg} \cup {Some(k) : k \in 0..(MaxExamples + 1)}

AssignRandomly ==
    /\ handler.alive
    /\ \E probs \in Probabilities, subset_size \in SubsetSizes,
          openOk \in BOOLEAN, staleOk \in BOOLEAN :
          \E pool \in SUBSET Keys(fs) :
            /\ Cardinality(pool) = IF subset_size.isNone THEN Cardinality(Keys(fs))
                                   ELSE Min(subset_size.v, Cardinality(Keys(fs)))
            /\ \E draw \in [pool -> Categories(probs)] :
                  LET r == AssignExamplesRandomly(handler, fs, probs, subset_size,
                                                  openOk, staleOk, pool, draw)
                  IN  /\ handler' = [handler EXCEPT !.datasets = r.datasets]
                      /\ lastCall' = Call("assign_examples_randomly", r.err, r.steps, fs,
                                          AssignInfo(Float(probs[1]), Float(probs[2]),
                                                     Float(probs[3]), "RandomState", r),
                                          r.log)
    /\ UNCHANGED <<fs, runs>>

\* a handler constructed over a path that held nothing, from n well-formed
\* examples
InitAssign ==
    /\ \E n \in 1..(MaxExamples + 1) :
          LET r == ConvertToHdf5(NoFile, [i \in 1..n |-> F22], [i \in 1..n |-> B22],
                                 NoneArg, TRUE, NoFault)
          IN  /\ fs = r.fs
              /\ handler = Handler(CountExamples(r.fs))
              /\ lastCall = Call("construct", r.err, r.steps, NoFile,
                                 [converted |-> TRUE]
                                     @@ ConvInfo([i \in 1..n |-> F22], [i \in 1..n |-> B22],
                                                 NoneArg),
                                 CountLog)
    /\ runs = <<>>
    /\ InitFM

NextAssign ==
    \/ AssignToDatasets /\ UNCHANGED fmVars
    \/ AssignByIndices /\ UNCHANGED fmVars
    \/ AssignRandomly /\ UNCHANGED fmVars

SpecAssign == InitAssign /\ [][NextAssign]_vars

-----------------------------------------------------------------------------
(* iterate_examples: a generator over the stored examples                   *)

DatasetExample(i, key, g) ==
    [index |-> i, key |-> key,
     img |-> [data |-> g.img, normalized |-> g.normalized],
     seg |-> g.seg,
     dist |-> [of |-> g.seg, dxGiven |-> g.dxGiven],
     dx |-> g.dxGiven]

\* the generator object: nothing of its body has run
NewRun(n) ==
    [status |-> "created", i |-> 0, n |-> n, yielded |-> <<>>,
     err |-> NoError, log |-> <<>>]

\* the state of the handle of a run: that of the last event of its log
HandleOf(log) == IF Len(log) = 0 THEN "unbound" ELSE log[Len(log)].handle

\* the loop stopping one example short
LoopRange_Short(n) == 0..(n - 2)

\* range(self.n_examples)
LoopRange(n) == 0..(n - 1)

\* hf[example_key][IMAGE_KEY][...] and the three reads after it
CanRead(f, key) == key \in Keys(f) /\ AllMembers \subseteq f.groups[key].members

\* the body of the with block from the top of the loop at index r.i, up to
\* the next yield, the end of the loop or an error; leaving the with block
\* closes the file
Advance(r, f) ==
    IF r.i \in LoopRange(r.n)
    THEN IF CanRead(f, EXAMPLE_KEY(r.i))
         THEN [r EXCEPT !.status = "suspended",
                        !.yielded = Append(@, DatasetExample(r.i, EXAMPLE_KEY(r.i),
                                                             f.groups[EXAMPLE_KEY(r.i)])),
                        !.i = @ + 1,
                        !.log = Append(@, Ev("read", HandleOf(r.log)))]
         ELSE [r EXCEPT !.status = "raised", !.err = "KeyError",
                        !.log = @ \o <<Ev("read-failed", HandleOf(r.log)),
                                       Ev("close", "closed")>>]
    ELSE [r EXCEPT !.status = "exhausted", !.log = Append(@, Ev("close", "closed"))]

\* gen = handler.iterate_examples()
IterateExamples ==
    /\ handler.alive
    /\ Len(runs) < MaxRuns
    /\ runs' = Append(runs, NewRun(handler.n_examples))
    /\ UNCHANGED <<fs, handler, lastCall>>

\* next(gen)
NextExample ==
    /\ \E k \in 1..Len(runs) :
          \/ /\ runs[k].status = "created"
             /\ \E openOk \in BOOLEAN :
                   runs' = [runs EXCEPT ![k] =
                              IF openOk
                              THEN Advance([@ EXCEPT !.log = <<Ev("open", "open")>>], fs)
                              ELSE [@ EXCEPT !.status = "raised",
                                             !.err = "UnboundLocalError",
                                             !.log = OpenFailedLog]]
          \/ /\ runs[k].status = "suspended"
             /\ runs' = [runs EXCEPT ![k] = Advance(@, fs)]
    /\ UNCHANGED <<fs, handler, lastCall>>

\* gen.close(), or the generator being collected: GeneratorExit is raised at
\* the yield and the with block closes the file
CloseRun ==
    /\ \E k \in 1..Len(runs) :
          /\ runs[k].status \in {"created", "suspended"}
          /\ runs' = [runs EXCEPT ![k] =
                        [@ EXCEPT !.status = "closed",
                                  !.log = IF runs[k].status = "suspended"
                                          THEN Append(@, Ev("close", "closed")) ELSE @]]
    /\ UNCHANGED <<fs, handler, lastCall>>

\* a handler over a file that a conversion left at the path: constructed by
\* the call that converted, or, when the conversion raised in its write loop,
\* by a later call that found the file there
InitIter ==
    /\ \E imgs \in SeqsUpTo({F22, F2}, MaxExamples), normalize \in BOOLEAN,
          dx \in {NoneArg, Some(<<1, 2>>)} :
          \E fault \in Faults(Len(imgs)) :
            LET segs == [i \in 1..Len(imgs) |-> IF imgs[i] = F22 THEN B22 ELSE B2]
                r == ConvertToHdf5(NoFile, imgs, segs, dx, normalize, fault)
            IN  /\ fault.step = "normalize" => normalize
                /\ PathExists(r.fs)
                /\ fs = r.fs
                /\ handler = Handler(CountExamples(r.fs))
                /\ lastCall =
                      IF r.err = NoError
                      THEN Call("construct", r.err, r.steps, NoFile,
                                [converted |-> TRUE] @@ ConvInfo(imgs, segs, dx), CountLog)
                      ELSE Call("construct", NoError, <<>>, r.fs,
                                [converted |-> FALSE], CountLog)
    /\ runs = <<>>
    /\ InitFM

NextIter ==
    \/ IterateExamples /\ UNCHANGED fmVars
    \/ NextExample /\ UNCHANGED fmVars
    \/ CloseRun /\ UNCHANGED fmVars

SpecIter == InitIter /\ [][NextIter]_vars

-----------------------------------------------------------------------------
(* Properties of partition assignment *)

Disjoint(a, b) == Range(a) \cap Range(b) = {}

IntList(x) == x.t = "list" /\ x.ints

\* C5: assign_examples_to_datasets called with three lists of integer indices
\* that share no elements returns without error and self.datasets holds just
\* the three lists, each under its subset's name.  (Stated for lists that are
\* not empty and hold indices of stored examples.)
C5_ExplicitListsRecorded ==
    LET a == lastCall.info
    IN  (/\ lastCall.op = "assign_examples_to_datasets"
         /\ IntList(a.training) /\ IntList(a.validation) /\ IntList(a.testing)
         /\ a.training.v # <<>> /\ a.validation.v # <<>> /\ a.testing.v # <<>>
         /\ Disjoint(a.training.v, a.validation.v)
         /\ Disjoint(a.training.v, a.testing.v)
         /\ Disjoint(a.validation.v, a.testing.v)
         /\ \A x \in Range(a.training.v \o a.validation.v \o a.testing.v) :
               x \in 0..(handler.n_examples - 1)
         /\ a.random_state \in {"None", "RandomState"}) =>
            /\ lastCall.err = NoError
            /\ ~handler.datasets.isNone
            /\ handler.datasets.v = [k \in {"training", "validation", "testing"} |->
                                        CASE k = "training" -> a.training.v
                                          [] k = "validation" -> a.validation.v
                                          [] k = "testing" -> a.testing.v]

\* C6: assign_examples_to_datasets called with three probabilities and a
\* random source returns without error, and every key of the pool (all the
\* keys of the store: the call gives no cap) is in the list of the subset its
\* draw picked and in no other.
C6_RandomSplitRecorded ==
    LET a == lastCall.info
    IN  (/\ lastCall.op = "assign_examples_to_datasets"
         /\ a.training.t = "float" /\ a.validation.t = "float" /\ a.testing.t = "float"
         /\ a.training.v[1] + a.validation.v[1] + a.testing.v[1] <= 10
         /\ a.random_state = "RandomState") =>
            /\ lastCall.err = NoError
            /\ ~handler.datasets.isNone
            /\ a.pool = Keys(fs)
            /\ \A key \in a.pool : \A c \in 0..2 :
                  (key \in handler.datasets.v[DATASET_KEYS[c + 1]]) <=> (a.draw[key] = c)

-----------------------------------------------------------------------------
(* Properties of reading *)

\* the events of a log that touch stored data
DataEvents == {"len(keys)", "keys()", "read", "read-failed"}

ScopedLog(log) ==
    /\ \A k \in 1..Len(log) : log[k].ev \in DataEvents => log[k].handle = "open"
    /\ HandleOf(log) # "open"

\* C10: every read operation (the count of the constructor, the key read of
\* assign_examples_randomly, a run of iterate_examples) touches stored data
\* only while its handle is open, and its handle is not open once it is over.
C10_ScopedHandles ==
    /\ Len(lastCall.log) > 0 => ScopedLog(lastCall.log)
    /\ \A k \in 1..Len(runs) :
          /\ \A j \in 1..Len(runs[k].log) :
                runs[k].log[j].ev \in DataEvents => runs[k].log[j].handle = "open"
          /\ runs[k].status \in {"exhausted", "raised", "closed"}
                => HandleOf(runs[k].log) # "open"

\* what a run has yielded so far is examples 0, 1, ... in order, each under
\* the key "example-<index>"
InOrder(r) ==
    /\ Len(r.yielded) <= handler.n_examples
    /\ \A j \in 1..Len(r.yielded) :
          /\ r.yielded[j].index = j - 1
          /\ r.yielded[j].key = <<"example-", j - 1>>

C9_Runs ==
    /\ \A k \in 1..Len(runs) :
          /\ InOrder(runs[k])
          /\ runs[k].status = "exhausted" => Len(runs[k].yielded) = handler.n_examples
          /\ CompleteStore(fs, handler.n_examples) => runs[k].err # "KeyError"
    /\ \A k1, k2 \in 1..Len(runs) :
          (runs[k1].status = "exhausted" /\ runs[k2].status = "exhausted")
              => runs[k1].yielded = runs[k2].yielded

\* C9: a run of iterate_examples yields the examples 0, 1, ... in order under
\* the keys example-i; a run that reached its end yielded n_examples of them;
\* on a store whose conversion completed no run fails on a missing example;
\* two runs that reached their end, one after the other or interleaved,
\* yielded the same sequence; and no step of a run changes the file.
C9_IterationInOrder == []C9_Runs /\ [][fs' = fs]_vars

\* on a store of at least two examples one run has reached its end while
\* another, started before it, is suspended after its first example
C9_Witness ==
    /\ Len(runs) >= 2
    /\ handler.n_examples >= 2
    /\ runs[1].status = "suspended" /\ Len(runs[1].yielded) = 1
    /\ runs[2].status = "exhausted" /\ Len(runs[2].yielded) = handler.n_examples

-----------------------------------------------------------------------------
(* The feature map: arrays and arithmetic                                   *)
(*                                                                         *)
(* A two-dimensional array is a shape and a function of the index pairs.    *)
(* A float is a whole number of quarters (1.0 is 4); products and quotients *)
(* are rounded down to a quarter.  NaN stands for the values that are not   *)
(* finite (nan, inf), which numpy gives for a division by zero and for the  *)
(* mean of no elements.                                                     *)

NaN == 0 - 1000000

Idx(shape) == (0..(shape[1] - 1)) \X (0..(shape[2] - 1))

Arr(shape, f) == [shape |-> shape, v |-> f]

\* np.zeros(shape), np.zeros_like(a)
Zeros(shape) == Arr(shape, [p \in Idx(shape) |-> 0])

Finite(x) == x # NaN

Mul(x, y) == IF Finite(x) /\ Finite(y) THEN (x * y) \div 4 ELSE NaN
Div(x, y) == IF Finite(x) /\ Finite(y) /\ y # 0 THEN (x * 4) \div y ELSE NaN
Add(x, y) == IF Finite(x) /\ Finite(y) THEN x + y ELSE NaN
Sub(x, y) == IF Finite(x) /\ Finite(y) THEN x - y ELSE NaN

\* the largest r with r * r <= n
ISqrt(n) == CHOOSE r \in 0..(n + 1) : r * r <= n /\ (r + 1) * (r + 1) > n

\* np.sqrt(x), x ** 0.5
Sqrt(x) == IF Finite(x) /\ x >= 0 THEN ISqrt(4 * x) ELSE NaN

RECURSIVE SumOver(_, _)
SumOver(f, S) ==
    IF S = {} THEN 0
    ELSE LET p == CHOOSE q \in S : TRUE
         IN  Add(f[p], SumOver(f, S \ {p}))

\* the pixels where a boolean array is True
TrueSet(b) == {p \in DOMAIN b.v : b.v[p]}

\* a[sel].mean() and a[sel].std() for the pixel set of a boolean array
MeanOver(a, S) ==
    IF S = {} THEN NaN ELSE LET t == SumOver(a.v, S)
                            IN  IF Finite(t) THEN t \div Cardinality(S) ELSE NaN

StdOver(a, S) ==
    IF S = {} THEN NaN
    ELSE LET m == MeanOver(a, S)
             dev == [p \in S |-> Mul(Sub(a.v[p], m), Sub(a.v[p], m))]
             t == SumOver(dev, S)
         IN  IF Finite(t) THEN Sqrt(t \div Cardinality(S)) ELSE NaN

\* the neighbour of index k along an axis of n entries, not leaving the axis
Clamp(k, n) == IF k < 0 THEN 0 ELSE IF k > n - 1 THEN n - 1 ELSE k

Shift(p, axis, by, shape) ==
    IF axis = 1 THEN <<Clamp(p[1] + by, shape[1]), p[2]>>
    ELSE <<p[1], Clamp(p[2] + by, shape[2])>>

\* np.gradient(a, *dx) along one axis with spacing h: central differences
\* inside, one-sided differences at the two ends
Gradient(a, axis, h) ==
    Arr(a.shape,
        [p \in Idx(a.shape) |->
            LET n == a.shape[axis]
                k == p[axis]
                lo == a.v[Shift(p, axis, -1, a.shape)]
                hi == a.v[Shift(p, axis, 1, a.shape)]
            IN  IF k = 0 \/ k = n - 1 THEN (hi - lo) \div h
                ELSE (hi - lo) \div (2 * h)])

\* sqrt(gx**2 + gy**2)
Magnitude(gx, gy) ==
    Arr(gx.shape, [p \in Idx(gx.shape) |->
                      Sqrt(Add(Mul(gx.v[p], gx.v[p]), Mul(gy.v[p], gy.v[p])))])

\* scipy.ndimage.gaussian_filter1d(a, sigma / h, axis=axis, order=order) with
\* its default boundary mode (reflect): the kernel cut to the two neighbours,
\* with weights sigma/h : 2 : sigma/h; order 1 is the derivative kernel
Gf1d(a, sigma, h, axis, order) ==
    Arr(a.shape,
        [p \in Idx(a.shape) |->
            LET lo == a.v[Shift(p, axis, -1, a.shape)]
                hi == a.v[Shift(p, axis, 1, a.shape)]
            IN  IF order = 0
                THEN (sigma * lo + 2 * h * a.v[p] + sigma * hi) \div (2 * h + 2 * sigma)
                ELSE (sigma * (hi - lo)) \div (2 * h + 2 * sigma)])

\* a / h for a scalar h
Scale(a, h) == Arr(a.shape, [p \in Idx(a.shape) |-> a.v[p] \div h])

\* a + b ** 2 and a ** 0.5, elementwise
AddSquare(a, b) == Arr(a.shape, [p \in Idx(a.shape) |-> Add(a.v[p], Mul(b.v[p], b.v[p]))])
Root(a) == Arr(a.shape, [p \in Idx(a.shape) |-> Sqrt(a.v[p])])

\* the image smoothed at scale sigma > 0: the filter applied along each axis
\* in turn
Blurred(img, sigma, dx) ==
    Gf1d(Gf1d(img, sigma, dx[1], 1, 0), sigma, dx[2], 2, 0)

\* the edge strength at scale sigma > 0: the derivative filters of the two
\* axes combined in quadrature
EdgeStrength(img, sigma, dx) ==
    Root(AddSquare(AddSquare(Zeros(img.shape),
                             Gf1d(Scale(img, dx[1]), sigma, dx[1], 1, 1)),
                   Gf1d(Scale(img, dx[2]), sigma, dx[2], 2, 1)))

\* the edge strength at sigma = 0: gx, gy = np.gradient(img, *dx)
EdgeStrength0(img, dx) ==
    Magnitude(Gradient(img, 1, dx[1]), Gradient(img, 2, dx[2]))

-----------------------------------------------------------------------------
(* simple_feature_map *)

nlocalimg == 2
nlocalseg == 1
nglobalimg == 2
nglobalseg == 7

\* simple_feature_map.__init__: the number of features
nfeatures(sig) == (nlocalimg + nglobalimg) * Len(sig) + nlocalseg + nglobalseg

\* the first of the four feature indices of scale number isig (from 1)
ijump(isig) == nglobalseg + nlocalseg + (isig - 1) * (nlocalimg + nglobalimg)

\* the attributes ii, jj, blurs, gmags of the engine: absent until a call with
\* memoize='create' sets them
EmptyCache == [ii |-> NoneArg, jj |-> NoneArg, blurs |-> NoneArg, gmags |-> NoneArg]

EvalResult(err, F, c) == [err |-> err, F |-> F, cache |-> c]

NoF == [shape |-> <<>>, v |-> <<>>]

\* np.indices(img.shape, dtype=np.float), each grid times its spacing
IndexGrid(shape, axis, h) == Arr(shape, [p \in Idx(shape) |-> 4 * p[axis] * h])

\* (grid * H.astype(np.float) / A).sum() * pdx, and the same of grid ** 2
Moment(grid, H, A, pdx, power) ==
    LET e == [p \in Idx(grid.shape) |->
                 Div(IF H.v[p] THEN (IF power = 1 THEN grid.v[p]
                                     ELSE Mul(grid.v[p], grid.v[p]))
                     ELSE 0, A)]
        t == SumOver(e, Idx(grid.shape))
    IN  IF Finite(t) THEN t * pdx ELSE NaN

\* self.blurs[isig] = a, self.gmags[isig] = a
StoreBlur(c, isig, a) == [c EXCEPT !.blurs = Some([c.blurs.v EXCEPT ![isig] = a])]
StoreGmag(c, isig, a) == [c EXCEPT !.gmags = Some([c.gmags.v EXCEPT ![isig] = a])]

\* if not hasattr(self, 'blurs'): self.blurs = np.zeros((len(sigmas),) + shape)
\* and the same for gmags
EnsureArrays(c, sig, shape) ==
    [c EXCEPT !.blurs = IF c.blurs.isNone
                        THEN Some([k \in 1..Len(sig) |-> Zeros(shape)]) ELSE @,
              !.gmags = IF c.gmags.isNone
                        THEN Some([k \in 1..Len(sig) |-> Zeros(shape)]) ELSE @]

\* the start of the create branch for sigma > 0: self.blurs[isig] = img,
\* self.gmags[isig] = np.zeros_like(img)
StartScale(c, isig, img) == StoreGmag(StoreBlur(c, isig, img), isig, Zeros(img.shape))

\* one pass of the loop over the axes in the create branch: the slot of blurs
\* is filtered in place, the squared derivative is added to the slot of gmags
FilterAxis(c, isig, sigma, img, dx, axis) ==
    StoreGmag(StoreBlur(c, isig, Gf1d(c.blurs.v[isig], sigma, dx[axis], axis, 0)),
              isig,
              AddSquare(c.gmags.v[isig],
                        Gf1d(Scale(img, dx[axis]), sigma, dx[axis], axis, 1)))

\* self.gmags[isig] **= 0.5
RootScale(c, isig) == StoreGmag(c, isig, Root(c.gmags.v[isig]))

\* the body of the create branch for one scale, once the arrays exist
CreateScale(c, isig, sigma, img, dx) ==
    IF sigma > 0
    THEN RootScale(FilterAxis(FilterAxis(StartScale(c, isig, img),
                                         isig, sigma, img, dx, 1),
                              isig, sigma, img, dx, 2),
                   isig)
    ELSE StoreGmag(StoreBlur(c, isig, img), isig, EdgeStrength0(img, dx))

\* the cached arrays of the first scale read for every scale
CachedScale_FirstScale(c, isig) == [blur |-> c.blurs.v[1], gmag |-> c.gmags.v[1]]

\* blur = self.blurs[isig]; gmag = self.gmags[isig]
CachedScale(c, isig) == [blur |-> c.blurs.v[isig], gmag |-> c.gmags.v[isig]]

\* blur and gmag of one scale when memoize is None
FreshScale(sigma, img, dx) ==
    IF sigma > 0
    THEN [blur |-> Blurred(img, sigma, dx), gmag |-> EdgeStrength(img, sigma, dx)]
    ELSE [blur |-> img, gmag |-> EdgeStrength0(img, dx)]

ScaleResult(err, c, sc) == [err |-> err, cache |-> c, sc |-> sc]

NoScale == [blur |-> Zeros(<<0, 0>>), gmag |-> Zeros(<<0, 0>>)]

\* the four assignments to F of one pass read blur[mask], gmag[mask], blur[H]
CheckScale(c, sc, H, mask) ==
    IF sc.blur.shape # mask.shape \/ sc.gmag.shape # mask.shape
        \/ sc.blur.shape # H.shape
    THEN ScaleResult("IndexError", c, NoScale)
    ELSE ScaleResult(NoError, c, sc)

\* the lines shared by 'create' and 'use', then the assignments
ReadScale(c, isig, H, mask) == CheckScale(c, CachedScale(c, isig), H, mask)

\* the create branch of one pass on an engine that has the arrays: an image
\* of another shape does not fit the slot
CreateStep(c, isig, sigma, img, H, mask, dx) ==
    IF c.blurs.v[isig].shape # img.shape \/ c.gmags.v[isig].shape # img.shape
    THEN ScaleResult("ValueError", c, NoScale)
    ELSE ReadScale(CreateScale(c, isig, sigma, img, dx), isig, H, mask)

\* one pass of the loop over self.sigmas
ScaleStep(c, sig, isig, img, H, mask, dx, memoize) ==
    IF memoize = "None" THEN CheckScale(c, FreshScale(sig[isig], img, dx), H, mask)
    ELSE IF memoize = "create"
    THEN CreateStep(EnsureArrays(c, sig, img.shape), isig, sig[isig], img, H, mask, dx)
    ELSE IF c.blurs.isNone \/ c.gmags.isNone
    THEN ScaleResult("AttributeError", c, NoScale)
    ELSE ReadScale(c, isig, H, mask)

\* the state of the loop after a pass that gave r
Accumulate(st, r) ==
    [err |-> r.err, cache |-> r.cache,
     scales |-> IF r.err = NoError THEN Append(st.scales, r.sc) ELSE st.scales]

RECURSIVE SigmaLoop(_, _, _, _, _, _, _, _)
\* for isig, sigma in enumerate(self.sigmas): st has the error, the cache and
\* the blur/gmag pairs of the scales done
SigmaLoop(st, sig, isig, img, H, mask, dx, memoize) ==
    IF isig > Len(sig) \/ st.err # NoError THEN st
    ELSE SigmaLoop(Accumulate(st, ScaleStep(st.cache, sig, isig, img, H, mask, dx,
                                            memoize)),
                   sig, isig + 1, img, H, mask, dx, memoize)

Directives == {"None", "create", "use"}

\* dx = np.ones(img.ndim) if dx is None else dx
Spacing(dxArg) == IF dxArg.isNone THEN <<1, 1>> ELSE dxArg.v

\* H = (u > 0), and H.astype(np.float)
Heaviside(u) == Arr(u.shape, [p \in Idx(u.shape) |-> u.v[p] > 0])
AsFloat(H) == Arr(H.shape, [p \in Idx(H.shape) |-> IF H.v[p] THEN 4 ELSE 0])

\* A = H.sum() * pdx
Area(H, dx) == 4 * Cardinality(TrueSet(H)) * dx[1] * dx[2]

\* L = gmagH.sum() * pdx
BoundaryLength(Hf, dx) ==
    SumOver(Magnitude(Gradient(Hf, 1, dx[1]), Gradient(Hf, 2, dx[2])).v, Idx(Hf.shape))
        * dx[1] * dx[2]

\* 4 * np.pi * A / L ** 2
Isoperimetric(A, L) == Div(Mul(50, A), Mul(L, L))

\* self.ii, self.jj = np.indices(...) times the spacing, when memoize is
\* 'create'
WithGrids(c, img, dx, memoize) ==
    IF memoize = "create"
    THEN [c EXCEPT !.ii = Some(IndexGrid(img.shape, 1, dx[1])),
                   !.jj = Some(IndexGrid(img.shape, 2, dx[2]))]
    ELSE c

\* ii (axis 1) or jj (axis 2): computed when memoize is None, else self.ii,
\* self.jj
Grid(c, img, dx, memoize, axis) ==
    IF memoize = "None" THEN IndexGrid(img.shape, axis, dx[axis])
    ELSE IF axis = 1 THEN c.ii.v ELSE c.jj.v

\* F[mask, 3][0]: the first element of the selection
FirstSelected(M) == IF M = {} THEN "IndexError" ELSE NoError

\* np.sqrt((ii[mask] - F[mask,3][0])**2 + (jj[mask] - F[mask,4][0])**2)
CentreDistance(ii, jj, M, m1i, m1j) ==
    [p \in M |-> Sqrt(Add(Mul(Sub(ii.v[p], m1i), Sub(ii.v[p], m1i)),
                          Mul(Sub(jj.v[p], m1j), Sub(jj.v[p], m1j))))]

\* feature number j of the four of one scale at pixel p; S is where H is True
ScaleFeature(sc, p, j, S) ==
    CASE j = 0 -> sc.blur.v[p]
      [] j = 1 -> sc.gmag.v[p]
      [] j = 2 -> MeanOver(sc.blur, S)
      [] j = 3 -> StdOver(sc.blur, S)

\* F[p, k] of a pixel p of the mask
FeatureAt(p, k, globals, dcom, scales, S) ==
    IF k < nglobalseg THEN globals[k + 1]
    ELSE IF k = nglobalseg THEN dcom[p]
    ELSE ScaleFeature(scales[((k - ijump(1)) \div (nlocalimg + nglobalimg)) + 1],
                      p, (k - ijump(1)) % (nlocalimg + nglobalimg), S)

\* the value returned once the loop over the scales is over: F is zero
\* outside the mask
Fill(img, M, nf, globals, dcom, loop, S) ==
    IF loop.err # NoError THEN EvalResult(loop.err, NoF, loop.cache)
    ELSE EvalResult(NoError,
                    [shape |-> img.shape \o <<nf>>,
                     v |-> [p \in Idx(img.shape) |->
                              [k \in 0..(nf - 1) |->
                                  IF p \in M
                                  THEN FeatureAt(p, k, globals, dcom, loop.scales, S)
                                  ELSE 0]]],
                    loop.cache)

\* the moments, the distance from the centre of mass and the loop over the
\* scales, with the area A, the boundary length L and the grids ii, jj
Features(c, sig, H, img, mask, dx, memoize, A, L, ii, jj) ==
    IF ii.shape # H.shape \/ jj.shape # H.shape                     \* ii * H
    THEN EvalResult("ValueError", NoF, c)
    ELSE IF ii.shape # mask.shape                                   \* ii[mask]
    THEN EvalResult("IndexError", NoF, c)
    ELSE IF FirstSelected(TrueSet(mask)) # NoError
    THEN EvalResult(FirstSelected(TrueSet(mask)), NoF, c)
    ELSE Fill(img, TrueSet(mask), nfeatures(sig),
              <<A, L, Isoperimetric(A, L),
                Moment(ii, H, A, dx[1] * dx[2], 1), Moment(jj, H, A, dx[1] * dx[2], 1),
                Moment(ii, H, A, dx[1] * dx[2], 2), Moment(jj, H, A, dx[1] * dx[2], 2)>>,
              CentreDistance(ii, jj, TrueSet(mask),
                             Moment(ii, H, A, dx[1] * dx[2], 1),
                             Moment(jj, H, A, dx[1] * dx[2], 1)),
              SigmaLoop([err |-> NoError, cache |-> c, scales |-> <<>>],
                        sig, 1, img, H, mask, dx, memoize),
              TrueSet(H))

\* the call from the index grids on; c has the grids when memoize is 'create'
FromGrids(c, sig, H, img, mask, dx, memoize) ==
    Features(c, sig, H, img, mask, dx, memoize,
             Area(H, dx), BoundaryLength(AsFloat(H), dx),
             Grid(c, img, dx, memoize, 1), Grid(c, img, dx, memoize, 2))

\* simple_feature_map.__call__(u, img, dist, mask, dx, memoize) on an engine
\* whose attributes are c
Evaluate(c, sig, u, img, dist, mask, dxArg, memoize) ==
    IF ~(ndim(u) = 2 /\ ndim(img) = 2 /\ ndim(dist) = 2 /\ ndim(mask) = 2)
    THEN EvalResult("AssertionError", NoF, c)
    ELSE IF memoize \notin Directives THEN EvalResult("AssertionError", NoF, c)
    ELSE IF mask.shape # img.shape                                  \* F[mask, 0]
    THEN EvalResult("IndexError", NoF, c)
    ELSE IF u.shape[1] < 2 \/ u.shape[2] < 2                        \* np.gradient
    THEN EvalResult("ValueError", NoF, c)
    ELSE IF memoize = "use" /\ (c.ii.isNone \/ c.jj.isNone)         \* self.ii
    THEN EvalResult("AttributeError", NoF, c)
    ELSE FromGrids(WithGrids(c, img, Spacing(dxArg), memoize), sig, Heaviside(u),
                   img, mask, Spacing(dxArg), memoize)

-----------------------------------------------------------------------------
(* The engine being called *)

\* a 2-d array from its rows
FromRows(rows) ==
    Arr(<<Len(rows), Len(rows[1])>>,
        [p \in Idx(<<Len(rows), Len(rows[1])>>) |-> rows[p[1] + 1][p[2] + 1]])

\* images (in quarters: 4 is 1.0)
ImageA == FromRows(<<<<0, 4>>, <<8, 4>>>>)
ImageB == FromRows(<<<<4, 4>>, <<0, 8>>>>)
ImageC == FromRows(<<<<0, 4, 8>>, <<4, 8, 0>>>>)

\* level set functions: positive inside
UInside == FromRows(<<<<1, -1>>, <<1, 1>>>>)
UNowhere == FromRows(<<<<-1, -1>>, <<-1, -1>>>>)
UWide == FromRows(<<<<1, 1, -1>>, <<-1, 1, -1>>>>)

\* narrow band masks
MaskSome == FromRows(<<<<TRUE, FALSE>>, <<FALSE, TRUE>>>>)
MaskNone == FromRows(<<<<FALSE, FALSE>>, <<FALSE, FALSE>>>>)
MaskWide == FromRows(<<<<TRUE, TRUE, FALSE>>, <<FALSE, TRUE, TRUE>>>>)

\* u, img, dist and mask of one call
Scene(u, img, dist, mask) == [u |-> u, img |-> img, dist |-> dist, mask |-> mask]

\* calls on arrays of one shape
Scenes ==
    {Scene(UInside, ImageA, UInside, MaskSome), Scene(UInside, ImageB, UInside, MaskSome),
     Scene(UNowhere, ImageA, UNowhere, MaskSome), Scene(UInside, ImageA, UInside, MaskNone),
     Scene(UWide, ImageC, UWide, MaskWide)}

\* calls on arrays that differ in shape (u, then dist) or with a u of one
\* dimension
OddScenes ==
    {Scene(UWide, ImageA, UInside, MaskSome), Scene(UInside, ImageA, UWide, MaskSome),
     Scene(Arr(<<2>>, [p \in {<<0>>, <<1>>} |-> 1]), ImageA, UInside, MaskSome)}

Spacings == {NoneArg, Some(<<2, 1>>)}

SigmaConfigs == {<<0, 3>>}

FmCall(called, memoize, scene, dx, err, F) ==
    [called |-> called, memoize |-> memoize, u |-> scene.u, img |-> scene.img,
     dist |-> scene.dist, mask |-> scene.mask, dx |-> dx, err |-> err, F |-> F]

NoFmCall ==
    FmCall(FALSE, "None", Scene(UNowhere, ImageA, UNowhere, MaskNone), NoneArg, NoError,
           NoF)

\* fm(u, img, dist, mask, dx, memoize); dist is looked at for its rank only
EvaluateCall ==
    /\ \E args \in (Scenes \X Spacings) \cup (OddScenes \X {NoneArg}),
          memoize \in Directives :
          \E r \in {Evaluate(cache, sigmas, args[1].u, args[1].img, args[1].dist,
                               args[1].mask, args[2], memoize)} :
              /\ cache' = r.cache
              /\ fmCall' = FmCall(TRUE, memoize, args[1], args[2], r.err, r.F)
              /\ fmCreate' = IF memoize = "create"
                             THEN FmCall(TRUE, memoize, args[1], args[2], r.err, r.F)
                             ELSE fmCreate
    /\ UNCHANGED sigmas

\* simple_feature_map(sigmas)
InitEngine ==
    /\ fs = NoFile
    /\ handler = NoHandler
    /\ lastCall = NoCall
    /\ runs = <<>>
    /\ sigmas \in SigmaConfigs
    /\ cache = EmptyCache
    /\ fmCall = NoFmCall
    /\ fmCreate = NoFmCall

NextFM == EvaluateCall /\ UNCHANGED storeVars

SpecFM == InitEngine /\ [][NextFM]_vars

-----------------------------------------------------------------------------
(* Properties of the feature map *)

\* the feature indices that depend on the scales
ScaleIndices == ijump(1)..(nfeatures(sigmas) - 1)

SameArguments(a, b) ==
    a.u = b.u /\ a.img = b.img /\ a.dist = b.dist /\ a.mask = b.mask /\ a.dx = b.dx

\* the four arrays of a call have two dimensions and one shape
OneShape(a) ==
    /\ ndim(a.u) = 2
    /\ a.u.shape = a.img.shape /\ a.dist.shape = a.img.shape /\ a.mask.shape = a.img.shape

\* the last call had memoize='use' and the arguments of the last call with
\* memoize='create', which returned
UseAfterCreate ==
    /\ fmCall.called /\ fmCall.memoize = "use"
    /\ fmCreate.called /\ fmCreate.err = NoError
    /\ SameArguments(fmCall, fmCreate)

\* C7: a call with memoize='use' that follows a call with memoize='create' on
\* the same u, image, mask and spacing returns, and at every masked pixel its
\* four features of every scale are those of a call with memoize=None.
C7_MemoizationEquivalence ==
    UseAfterCreate =>
        LET ref == Evaluate(EmptyCache, sigmas, fmCall.u, fmCall.img, fmCall.dist,
                            fmCall.mask, fmCall.dx, "None")
        IN  /\ fmCall.err = NoError
            /\ ref.err = NoError
            /\ \A p \in TrueSet(fmCall.mask) : \A k \in ScaleIndices :
                  fmCall.F.v[p][k] = ref.F.v[p][k]

\* create then use returned on an image with a zero and a positive scale, the
\* level set function positive somewhere and a spacing that is not the
\* default; the smoothed value of a masked pixel differs between the scales
C7_Witness ==
    /\ UseAfterCreate
    /\ fmCall.err = NoError
    /\ sigmas = <<0, 3>>
    /\ fmCall.img = ImageB /\ fmCall.u = UInside /\ fmCall.mask = MaskSome
    /\ ~fmCall.dx.isNone
    /\ fmCall.F.v[<<1, 1>>][ijump(2)] # fmCall.F.v[<<1, 1>>][ijump(1)]

\* C8: a call with memoize=None on arrays of one shape returns, whatever the
\* mask holds, a tensor of shape img.shape + (nfeatures,), nfeatures =
\* 4 * len(sigmas) + 8, and the tensor is all zero when no pixel is masked.
C8_ShapeForAnyMask ==
    (fmCall.called /\ fmCall.memoize = "None" /\ OneShape(fmCall)) =>
        /\ fmCall.err = NoError
        /\ fmCall.F.shape = fmCall.img.shape \o <<4 * Len(sigmas) + 8>>
        /\ TrueSet(fmCall.mask) = {} =>
              \A p \in DOMAIN fmCall.F.v : \A k \in DOMAIN fmCall.F.v[p] :
                  fmCall.F.v[p][k] = 0

\* C11: a call whose u, img, dist and mask do not all have two dimensions and
\* one shape fails, and no attribute of the engine is written by it.
C11_ShapeErrorFirst ==
    [][(fmCall'.called /\ ~OneShape(fmCall')) =>
          (fmCall'.err # NoError /\ cache' = cache)]_vars

\* the last call was made on arrays of one shape with a pixel in the mask
Regular(a) == a.called /\ OneShape(a) /\ TrueSet(a.mask) # {}

\* the attributes of an engine after one call with memoize='create' alone
CreatedAlone(a) ==
    Evaluate(EmptyCache, sigmas, a.u, a.img, a.dist, a.mask, a.dx, "create").cache

\* C12: a call with memoize='use' leaves ii, jj, blurs and gmags as they were
\* and its four features of every scale are those of the image and spacing of
\* the last call with memoize='create'; a call with memoize='create' returns
\* on an image of any shape, whatever the engine held before, and leaves the
\* attributes that a new engine would have after it.
C12_CacheFollowsCreate ==
    [][/\ (fmCall'.called /\ fmCall'.memoize = "use") => cache' = cache
       /\ (Regular(fmCall') /\ fmCall'.memoize = "create") =>
              /\ fmCall'.err = NoError
              /\ cache' = CreatedAlone(fmCall')
       /\ (/\ Regular(fmCall') /\ fmCall'.memoize = "use"
           /\ fmCreate.called /\ fmCreate.err = NoError
           /\ fmCreate.img.shape = fmCall'.img.shape) =>
              LET ref == Evaluate(EmptyCache, sigmas, fmCall'.u, fmCreate.img,
                                  fmCall'.dist, fmCall'.mask, fmCreate.dx, "None")
              IN  /\ fmCall'.err = NoError
                  /\ \A p \in TrueSet(fmCall'.mask) : \A k \in ScaleIndices :
                        fmCall'.F.v[p][k] = ref.F.v[p][k]]_vars

====
